---- MODULE Spec2Model ----
(***************************************************************************)
(* Retrieval provider of droplet: the deal handler (UnsealData, CancelDeal, *)
(* CleanupDeal, Error) and the request validator (ValidatePull) working on  *)
(* the retrieval-deal repository.                                           *)
(***************************************************************************)
EXTENDS Integers, Sequences, FiniteSets, TLC

(* ------------------------------ bounds --------------------------------- *)

\* largest number of in-progress answers without error that one UnsealData
\* run waits through
MaxWaits == 2
\* largest price a handled proposal names (price per byte, unseal price)
MaxPrice == 1
\* longest list of candidate storage deals returned for a payload
MaxCandidates == 1
\* longest list of candidate storage deals that acceptDeal scans
MaxScan == 2
\* longest voucher list of a payment channel
MaxVouchers == 3
\* most crashes of the provider process in the middle of UnsealData before a
\* run of it completes
MaxCrashes == 1
\* number of dagstore callers that fetch pieces at the same time
MaxCallers == 3
\* largest concurrency the marketAPI is built with
MaxConcurrency == 2

(* --------------------------- program constants ------------------------- *)

\* errRetry, errRetryCount := 5, 0
errRetry == 5

Nil == "nil"                 \* the nil error
NoChannel == "none"          \* ProviderDealState.ChannelID == nil
Undef == "undef"             \* cid.Undef
NilAmount == -1              \* a TokenAmount that was never assigned
ErrPause == "pause"          \* datatransfer.ErrPause
NoResponse == [none |-> TRUE]

DealIDs == {1}
ErrMsgs == {"e1"}

\* rm.DealStatus values a deal takes in this code
DealStatusNew == "New"
DealStatusUnsealing == "Unsealing"
DealStatusUnsealed == "Unsealed"
DealStatusAccepted == "Accepted"
DealStatusFundsNeededUnseal == "FundsNeededUnseal"
DealStatusRejected == "Rejected"
DealStatusDealNotFound == "DealNotFound"
DealStatusCompleted == "Completed"
DealStatusCancelled == "Cancelled"
DealStatusErrored == "Errored"

TerminalStatuses == {DealStatusCompleted, DealStatusCancelled, DealStatusErrored}

\* gtypes.UnsealState: the two terminal values the loop tests and the others
UnsealStateFailed == "Failed"
UnsealStateFinished == "Finished"
UnsealStateInProgress == "InProgress"
UnsealStates == {UnsealStateFailed, UnsealStateInProgress, UnsealStateFinished}

VARIABLES
    store,        \* retrievalDealStore: deal ID -> persisted ProviderDealState
    deal,         \* the *ProviderDealState the running or last operation holds
    op,           \* the running or last operation
    pc,           \* position of the running UnsealData ("idle" when none runs)
    ret,          \* the error the last operation returned
    resp,         \* the voucher result ValidatePull returned last
    state,        \* UnsealData: state of the last SectorsUnsealPiece answer
    err,          \* UnsealData: the named result err
    errRetryCount,\* UnsealData: failed SectorsUnsealPiece calls so far
    ctxDone,      \* the caller's ctx is cancelled
    deadline,     \* the 12 hour timer of timeOutCtx has fired
    piecePresent, \* some piece storage holds the piece
    asks,         \* retrievalAsk repository: provider -> published RetrievalAsk
    obs,          \* what the running or last operation did (observation only)
    pay,          \* a BestSpendableByLane call on a payment channel
    dag           \* the dagstore marketAPI and the calls running on it

vars == <<store, deal, op, pc, ret, resp, state, err, errRetryCount,
          ctxDone, deadline, piecePresent, asks, obs, pay, dag>>

\* the retrieval provider proper
Provider == <<store, deal, op, pc, ret, resp, state, err, errRetryCount,
              ctxDone, deadline, piecePresent, asks, obs>>

\* what the retrieval provider's operations do not touch
Others == <<pay, dag>>

(* ------------------------------ records -------------------------------- *)

NoDeal == [ID |-> 0]

obs0 == [writes |-> <<>>,        \* statuses persisted, in order
         calls |-> 0,            \* SectorsUnsealPiece calls
         lastErr |-> FALSE,      \* the last of them returned an error
         found |-> FALSE,        \* FindStorageForRead returned a storage
         findWrite |-> FALSE,    \* FindStorageForWrite was called
         prepare |-> "none",     \* PrepareBlockstore: none / ok / fail
         resume |-> "none",      \* ResumeDataTransfer: none / ok / fail
         delete |-> "none",      \* DeleteStore: none / ok / fail
         close |-> "none",       \* CloseDataTransfer: none / ok / terminated / fail
         path |-> "none",        \* the failure the operation ran into
         pre |-> NoDeal,         \* the deal as handed to the operation
         arg |-> Nil,            \* Error: its err argument
         req |-> [none |-> TRUE], \* ValidatePull: the request and what its
                                 \* collaborators answered
         crash |-> [n |-> 0, called |-> FALSE]]
                                 \* UnsealData: the crashes before this run,
                                 \* and whether an interrupted run had called
                                 \* SectorsUnsealPiece

Saved(id) == id \in DOMAIN store

\* retrievalDealStore.SaveDeal when it succeeds
SaveDeal(st, d) == (d.ID :> d) @@ st

Wrote(o, d) == [o EXCEPT !.writes = Append(@, d.Status)]

(* ------------------------- RetrievalDealHandler ------------------------ *)

\* an Error that forgets the message it was not given a replacement for
ErrorDropsMessage(d, e) ==
    [d EXCEPT !.Status = DealStatusErrored,
              !.Message = IF e # Nil THEN e ELSE ""]

\* Error: status and message of the deal
Error(d, e) ==
    [d EXCEPT !.Status = DealStatusErrored,
              !.Message = IF e # Nil THEN e ELSE @]

\* a close check that does not let ErrTerminated through
CloseFailedStrict(closeRes) == closeRes # "ok"

\* CancelDeal: err != nil && !errors.Is(err, statemachine.ErrTerminated)
CloseFailed(closeRes) == closeRes \notin {"ok", "terminated"}

\* a CancelDeal that records the failure of DeleteStore in the deal
CancelDealStateRecordsError(d, delOk, closeRes) ==
    IF ~delOk THEN Error(d, "e1")
    ELSE IF d.ChannelID # NoChannel /\ CloseFailed(closeRes) THEN Error(d, Nil)
    ELSE [d EXCEPT !.Status = DealStatusCancelled]

\* CancelDeal: the deal it goes on to save
CancelDealState(d, delOk, closeRes) ==
    IF ~delOk THEN Error(d, Nil)
    ELSE IF d.ChannelID # NoChannel /\ CloseFailed(closeRes) THEN Error(d, Nil)
    ELSE [d EXCEPT !.Status = DealStatusCancelled]

\* a CleanupDeal that saves the deal as it was when DeleteStore fails
CleanupDealKeepsStatus(d, delOk) ==
    IF ~delOk THEN d
    ELSE [d EXCEPT !.Status = DealStatusCompleted]

\* CleanupDeal: the deal it goes on to save
CleanupDealState(d, delOk) ==
    IF ~delOk THEN Error(d, Nil)
    ELSE [d EXCEPT !.Status = DealStatusCompleted]

\* a loop that gives up one failure early
RetryExhaustedEarly(n) == n >= errRetry

\* the unseal loop gives up: errRetryCount > errRetry
RetryExhausted(n) == n > errRetry

\* a timeout branch that loses the error of the ctx
CtxErrDropped(done) == IF done THEN Nil ELSE Nil

\* case <-timeOutCtx.Done(): err = ctx.Err()
CtxErr(done) == IF done THEN "context canceled" ELSE Nil

\* observation of a CancelDeal run
CancelObs(o, d, delOk, closeRes) ==
    [o EXCEPT !.delete = IF delOk THEN "ok" ELSE "fail",
              !.close = IF delOk /\ d.ChannelID # NoChannel THEN closeRes ELSE "none"]

\* a probe whose test of st is inverted
StorageFoundInverted(res) == res # "found"

\* if st != nil: the piece is already there, no need to unseal
StorageFound(res) == res = "found"

\* a failed PrepareBlockstore that cancels the deal and then carries on
AfterPrepareFailureNoReturn == "saveUnsealed"

\* line 140: return after err = p.CancelDeal(ctx, providerDeal)
AfterPrepareFailure == "done"

\* an UnsealData that saves the deal with the status it came with
SetUnsealingForgets(d) == d

\* line 49: providerDeal.Status = rm.DealStatusUnsealing
SetUnsealing(d) == [d EXCEPT !.Status = DealStatusUnsealing]

\* an UnsealData that leaves the status at Unsealing
SetUnsealedForgets(d) == d

\* line 143: providerDeal.Status = rm.DealStatusUnsealed
SetUnsealed(d) == [d EXCEPT !.Status = DealStatusUnsealed]

\* a loop that polls on after a Failed answer
HardFailureNever(s) == s # s

\* line 120: case gtypes.UnsealStateFailed
HardFailure(s) == s = UnsealStateFailed

\* a resume that does not look for the channel
ResumeCalledAlways(d) == d = d

\* line 151: if providerDeal.ChannelID != nil
ResumeCalled(d) == d.ChannelID # NoChannel

Idle == pc = "idle"

Return(e) == /\ pc' = "done"
             /\ ret' = e
             /\ err' = e

\* a handler operation starts on the deal as loaded from the repository
Begin(name, id) ==
    /\ Idle
    /\ Saved(id)
    /\ op' = name
    /\ resp' = NoResponse

UnsealLocals == <<state, errRetryCount>>
Env == <<ctxDone, deadline, piecePresent, asks>>

\* UnsealData, lines 47-53: set Unsealing and save
UnsealStart(id) ==
    /\ Begin("UnsealData", id)
    /\ deal' = SetUnsealing(store[id])
    /\ state' = UnsealStateFailed
    /\ errRetryCount' = 0
    /\ ctxDone' = FALSE
    /\ deadline' = FALSE
    /\ UNCHANGED <<piecePresent, asks>>
    /\ \E saveOk \in BOOLEAN :
         IF saveOk
         THEN /\ store' = SaveDeal(store, deal')
              /\ obs' = Wrote([obs0 EXCEPT !.crash = obs.crash], deal')
              /\ pc' = "getDeal"
              /\ UNCHANGED <<ret, err>>
         ELSE /\ obs' = [obs0 EXCEPT !.path = "save", !.crash = obs.crash]
              /\ Return("save deal")
              /\ UNCHANGED store
    /\ UNCHANGED Others

\* lines 55-58: storageDealRepo.GetDeal(providerDeal.SelStorageProposalCid)
UnsealGetDeal ==
    /\ pc = "getDeal"
    /\ \E ok \in BOOLEAN :
         IF ok /\ deal.SelStorageProposalCid # Undef
         THEN /\ pc' = "findRead"
              /\ UNCHANGED <<ret, err, obs>>
         ELSE /\ Return("get storage deal")
              /\ obs' = [obs EXCEPT !.path = "getDeal"]
    /\ UNCHANGED <<store, deal, op, resp, UnsealLocals, Env>>
    /\ UNCHANGED Others

\* lines 65-73: FindStorageForRead; only st decides what follows
UnsealFindRead ==
    /\ pc = "findRead"
    /\ \E res \in {"found", "notFound", "error"} :
         /\ res = "found" => piecePresent
         /\ res = "notFound" => ~piecePresent
         /\ pc' = IF StorageFound(res) THEN "prepare" ELSE "findWrite"
         /\ obs' = [obs EXCEPT !.found = (res = "found")]
         /\ err' = IF res = "found" THEN Nil ELSE res
    /\ UNCHANGED <<store, deal, op, ret, resp, UnsealLocals, Env>>
    /\ UNCHANGED Others

\* lines 76-80: FindStorageForWrite
UnsealFindWrite ==
    /\ pc = "findWrite"
    /\ \E ok \in BOOLEAN :
         IF ok
         THEN /\ pc' = "getTransfer"
              /\ err' = Nil
              /\ obs' = [obs EXCEPT !.findWrite = TRUE]
              /\ UNCHANGED ret
         ELSE /\ Return("failed to find storage to write")
              /\ obs' = [obs EXCEPT !.findWrite = TRUE, !.path = "findWrite"]
    /\ UNCHANGED <<store, deal, op, resp, UnsealLocals, Env>>
    /\ UNCHANGED Others

\* lines 83-87: GetPieceTransfer
UnsealGetTransfer ==
    /\ pc = "getTransfer"
    /\ \E ok \in BOOLEAN :
         IF ok
         THEN /\ pc' = "poll"
              /\ UNCHANGED <<ret, err, obs>>
         ELSE /\ Return("get piece transfer")
              /\ obs' = [obs EXCEPT !.path = "getTransfer"]
    /\ UNCHANGED <<store, deal, op, resp, UnsealLocals, Env>>
    /\ UNCHANGED Others

\* a counter of consecutive failures: a call that succeeds clears it
CountFailureResets(failed, count) == IF failed THEN count + 1 ELSE 0

\* lines 110-112: errRetryCount++ inside if err != nil, and nowhere else
CountFailure(failed, count) == IF failed THEN count + 1 ELSE count

\* lines 101-126: one SectorsUnsealPiece call and what the loop makes of it
UnsealPoll ==
    /\ pc = "poll"
    /\ \E s \in UnsealStates, failed \in BOOLEAN :
         LET n == CountFailure(failed, errRetryCount)
             o == [obs EXCEPT !.calls = @ + 1, !.lastErr = failed]
         IN /\ (s = UnsealStateInProgress /\ ~failed)
                  => obs.calls - errRetryCount < MaxWaits
            /\ state' = s
            /\ errRetryCount' = n
            /\ piecePresent' = (piecePresent \/ (s = UnsealStateFinished /\ ~failed))
            /\ IF failed /\ RetryExhausted(n)
               THEN /\ Return("unseal piece")
                    /\ obs' = [o EXCEPT !.path = "retry"]
               ELSE IF HardFailure(s)
               THEN /\ Return("unseal piece fail")
                    /\ obs' = [o EXCEPT !.path = "failed"]
               ELSE IF s = UnsealStateFinished
               THEN /\ pc' = "prepare"
                    /\ err' = IF failed THEN "unseal piece" ELSE Nil
                    /\ obs' = o
                    /\ UNCHANGED ret
               ELSE /\ pc' = "wait"
                    /\ err' = IF failed THEN "unseal piece" ELSE Nil
                    /\ obs' = o
                    /\ UNCHANGED ret
    /\ UNCHANGED <<store, deal, op, resp, ctxDone, deadline, asks>>
    /\ UNCHANGED Others

\* lines 127-132, case <-ticker.C
UnsealTick ==
    /\ pc = "wait"
    /\ pc' = "poll"
    /\ UNCHANGED <<store, deal, op, ret, resp, err, UnsealLocals, Env, obs>>
    /\ UNCHANGED Others

\* lines 127-132, case <-timeOutCtx.Done(): Done was closed when the select
\* was reached, or its closing woke the select
UnsealTimeout ==
    /\ \/ pc = "wait" /\ (ctxDone \/ deadline)
       \/ pc = "woken"
    /\ Return(CtxErr(ctxDone))
    /\ obs' = [obs EXCEPT !.path = IF ctxDone THEN "cancel" ELSE "deadline"]
    /\ UNCHANGED <<store, deal, op, resp, UnsealLocals, Env>>
    /\ UNCHANGED Others

\* lines 137-141: PrepareBlockstore, and CancelDeal when it fails
UnsealPrepare ==
    /\ pc = "prepare"
    /\ \E ok \in BOOLEAN :
         IF ok
         THEN /\ pc' = "saveUnsealed"
              /\ err' = Nil
              /\ obs' = [obs EXCEPT !.prepare = "ok"]
              /\ UNCHANGED <<store, deal, ret>>
         ELSE \E delOk, saveOk \in BOOLEAN, closeRes \in {"ok", "terminated", "fail"} :
                LET d == CancelDealState(deal, delOk, closeRes)
                    o == CancelObs([obs EXCEPT !.prepare = "fail", !.path = "prepare"],
                                   deal, delOk, closeRes)
                    e == IF saveOk THEN Nil ELSE "save deal"
                IN /\ deal' = d
                   /\ pc' = AfterPrepareFailure
                   /\ ret' = e
                   /\ err' = e
                   /\ IF saveOk
                      THEN /\ store' = SaveDeal(store, d)
                           /\ obs' = Wrote(o, d)
                      ELSE /\ obs' = o
                           /\ UNCHANGED store
    /\ UNCHANGED <<op, resp, UnsealLocals, Env>>
    /\ UNCHANGED Others

\* lines 143-147: set Unsealed and save
UnsealSaveUnsealed ==
    /\ pc = "saveUnsealed"
    /\ deal' = SetUnsealed(deal)
    /\ \E saveOk \in BOOLEAN :
         IF saveOk
         THEN /\ store' = SaveDeal(store, deal')
              /\ obs' = Wrote(obs, deal')
              /\ pc' = "resume"
              /\ UNCHANGED <<ret, err>>
         ELSE /\ obs' = [obs EXCEPT !.path = "save"]
              /\ Return("save deal")
              /\ UNCHANGED store
    /\ UNCHANGED <<op, resp, UnsealLocals, Env>>
    /\ UNCHANGED Others

\* lines 151-159: resume the transfer if there is a channel, then save
UnsealResume ==
    /\ pc = "resume"
    /\ \E resumeOk, saveOk \in BOOLEAN :
         LET called == ResumeCalled(deal)
             bad == called /\ ~resumeOk
             d == IF bad THEN [deal EXCEPT !.Status = DealStatusErrored] ELSE deal
             o == [obs EXCEPT !.resume = IF ~called THEN "none"
                                         ELSE IF resumeOk THEN "ok" ELSE "fail",
                              !.path = IF bad THEN "resume" ELSE @]
         IN /\ called \/ resumeOk
            /\ deal' = d
            /\ IF saveOk
               THEN /\ store' = SaveDeal(store, d)
                    /\ obs' = Wrote(o, d)
                    /\ Return(Nil)
               ELSE /\ obs' = [o EXCEPT !.path = IF bad THEN @ ELSE "save"]
                    /\ Return("save deal")
                    /\ UNCHANGED store
    /\ UNCHANGED <<op, resp, UnsealLocals, Env>>
    /\ UNCHANGED Others

\* a select that waits, neither channel ready, is woken by the one that
\* becomes ready first
Woken(at) == IF at = "wait" /\ ~ctxDone /\ ~deadline THEN "woken" ELSE at

\* the caller cancels the ctx it gave UnsealData
CtxCancel ==
    /\ pc \notin {"idle", "done"}
    /\ ~ctxDone
    /\ ctxDone' = TRUE
    /\ pc' = Woken(pc)
    /\ UNCHANGED <<store, deal, op, ret, resp, state, err, errRetryCount,
                   deadline, piecePresent, asks, obs>>
    /\ UNCHANGED Others

\* context.WithTimeout(ctx, 12*time.Hour) runs out while the loop is running
DeadlineExpires ==
    /\ pc \in {"poll", "wait"}
    /\ ~deadline
    /\ deadline' = TRUE
    /\ pc' = Woken(pc)
    /\ UNCHANGED <<store, deal, op, ret, resp, state, err, errRetryCount,
                   ctxDone, piecePresent, asks, obs>>
    /\ UNCHANGED Others

\* CancelDeal, lines 162-176
CancelDeal(id) ==
    /\ Begin("CancelDeal", id)
    /\ \E delOk, saveOk \in BOOLEAN, closeRes \in {"ok", "terminated", "fail"} :
         LET d == CancelDealState(store[id], delOk, closeRes)
             o == CancelObs([obs0 EXCEPT !.pre = store[id],
                                         !.path = IF d.Status = DealStatusErrored
                                                  THEN "teardown" ELSE "none"],
                            store[id], delOk, closeRes)
         IN /\ deal' = d
            /\ IF saveOk
               THEN /\ store' = SaveDeal(store, d)
                    /\ obs' = Wrote(o, d)
                    /\ Return(Nil)
               ELSE /\ obs' = o
                    /\ Return("save deal")
                    /\ UNCHANGED store
    /\ UNCHANGED <<UnsealLocals, Env>>
    /\ UNCHANGED Others

\* CleanupDeal, lines 179-186
CleanupDeal(id) ==
    /\ Begin("CleanupDeal", id)
    /\ \E delOk, saveOk \in BOOLEAN :
         LET d == CleanupDealState(store[id], delOk)
             o == [obs0 EXCEPT !.pre = store[id],
                               !.delete = IF delOk THEN "ok" ELSE "fail",
                               !.path = IF delOk THEN "none" ELSE "teardown"]
         IN /\ deal' = d
            /\ IF saveOk
               THEN /\ store' = SaveDeal(store, d)
                    /\ obs' = Wrote(o, d)
                    /\ Return(Nil)
               ELSE /\ obs' = o
                    /\ Return("save deal")
                    /\ UNCHANGED store
    /\ UNCHANGED <<UnsealLocals, Env>>
    /\ UNCHANGED Others

\* Error, lines 188-194
ErrorDeal(id) ==
    /\ Begin("Error", id)
    /\ \E e \in ErrMsgs \cup {Nil}, saveOk \in BOOLEAN :
         LET d == Error(store[id], e)
             o == [obs0 EXCEPT !.pre = store[id], !.arg = e]
         IN /\ deal' = d
            /\ IF saveOk
               THEN /\ store' = SaveDeal(store, d)
                    /\ obs' = Wrote(o, d)
                    /\ Return(Nil)
               ELSE /\ obs' = o
                    /\ Return("save deal")
                    /\ UNCHANGED store
    /\ UNCHANGED <<UnsealLocals, Env>>
    /\ UNCHANGED Others

(* ----------------------- ProviderRequestValidator ---------------------- *)

NoSelector == <<>>           \* Params.Selector == nil
CborNull == <<246>>          \* cbg.CborNull
NoAsk == [none |-> TRUE]     \* ask == nil

\* dagcbor.Encode of a selector node
EncodeSelector(node) ==
    CASE node = "all" -> <<161, 1>>
      [] node = "sub" -> <<161, 2>>
      [] OTHER -> CborNull

\* dagcbor.Encode(selectorparse.CommonSelector_ExploreAllRecursively, buf)
allSelectorBytes == EncodeSelector("all")

\* a check that never finds an explicit selector
SelectorSpecifiedNever(p) == p.Selector # p.Selector

\* DealProposal.SelectorSpecified
SelectorSpecified(p) == p.Selector # NoSelector /\ p.Selector # CborNull

\* migrations.MigrateDealProposal0To1: the tuple-encoded DealProposal0
\* <<PayloadCID, ID, <<Selector, PricePerByte, PaymentInterval,
\* PaymentIntervalIncrease, UnsealPrice>>>> as a DealProposal
MigrateDealProposal0To1(p0) ==
    [PayloadCID |-> p0[1], ID |-> p0[2], Selector |-> p0[3][1],
     PricePerByte |-> p0[3][2],
     PaymentInterval |-> p0[3][3],
     PaymentIntervalIncrease |-> p0[3][4],
     UnsealPrice |-> p0[3][5]]

\* validatePull, lines 133-138: the deal built from the proposal
NewDealState(p, receiver, legacy) ==
    [ID |-> p.ID, PayloadCID |-> p.PayloadCID, Selector |-> p.Selector,
     PricePerByte |-> p.PricePerByte,
     PaymentInterval |-> p.PaymentInterval,
     PaymentIntervalIncrease |-> p.PaymentIntervalIncrease,
     UnsealPrice |-> p.UnsealPrice,
     Receiver |-> receiver, LegacyProtocol |-> legacy,
     CurrentInterval |-> p.PaymentInterval,
     Status |-> DealStatusNew, TotalSent |-> 0, FundsReceived |-> NilAmount,
     Message |-> "", ChannelID |-> NoChannel, SelStorageProposalCid |-> Undef]

\* CheckDealParams(ask, pricePerByte, paymentInterval, paymentIntervalIncrease, unsealPrice)
CheckDealParams(ask, d) ==
    IF d.PricePerByte < ask.PricePerByte THEN "price per byte too low"
    ELSE IF d.PaymentInterval > ask.PaymentInterval THEN "payment interval too large"
    ELSE IF d.PaymentIntervalIncrease > ask.PaymentIntervalIncrease
         THEN "payment interval increase too large"
    ELSE IF d.UnsealPrice < ask.UnsealPrice THEN "unseal price too small"
    ELSE Nil

Providers == {"m1", "m2"}

\* minerDeal.Proposal.Provider of the storage deal with this proposal cid
ProviderOf(cid) == IF cid = "p1" THEN "m1" ELSE "m2"

\* rv.retrievalAsk.GetAsk(ctx, provider): the ask of the provider, or none
\* when the repository fails or holds no ask for it
GetAsk(repo, provider, ok) ==
    IF ok /\ provider \in DOMAIN repo THEN repo[provider] ELSE NoAsk

\* the candidate storage deals with what the config and the ask repository
\* answer for each
Resolve(minerDeals, repo) ==
    [i \in 1..Len(minerDeals) |->
        [ProposalCid |-> minerDeals[i].ProposalCid,
         cfg |-> minerDeals[i].cfg,
         ask |-> GetAsk(repo, ProviderOf(minerDeals[i].ProposalCid), minerDeals[i].getAsk)]]

\* a scan that queries the ask of every candidate
UsableAlways(c) == c = c

\* acceptDeal, lines 199-205: the provider of the candidate has a config and a
\* retrieval payment address
Usable(c) == c.cfg = "ok"

\* acceptDeal, lines 198-213: the scan of the candidate storage deals; gives
\* the ask found (or NoAsk), the SelStorageProposalCid left in the deal and
\* the candidates whose ask was queried, in the order of the queries
RECURSIVE ScanCandidates(_, _, _)
ScanCandidates(minerDeals, i, sel) ==
    IF i > Len(minerDeals) THEN [ask |-> NoAsk, sel |-> sel, asked |-> <<>>]
    ELSE LET c == minerDeals[i] IN
         IF ~Usable(c) THEN ScanCandidates(minerDeals, i + 1, sel)
         ELSE IF c.ask = NoAsk
         THEN LET rest == ScanCandidates(minerDeals, i + 1, c.ProposalCid)
              IN [rest EXCEPT !.asked = <<i>> \o @]
         ELSE [ask |-> c.ask, sel |-> c.ProposalCid, asked |-> <<i>>]

\* acceptDeal, lines 234-238
AcceptedStatus(d) ==
    IF d.UnsealPrice > 0 THEN DealStatusFundsNeededUnseal ELSE DealStatusAccepted

\* an acceptDeal that takes the terms as offered
AcceptDealSkipsTermsCheck(d, pieceInfo, policy) ==
    IF pieceInfo.err = "not found"
    THEN [status |-> DealStatusDealNotFound, err |-> "not found", deal |-> d]
    ELSE IF pieceInfo.err # Nil
    THEN [status |-> DealStatusErrored, err |-> pieceInfo.err, deal |-> d]
    ELSE LET scan == ScanCandidates(pieceInfo.deals, 1, d.SelStorageProposalCid)
             d1 == [d EXCEPT !.SelStorageProposalCid = scan.sel]
         IN IF scan.ask = NoAsk
            THEN [status |-> DealStatusErrored, err |-> Nil, deal |-> d1]
            ELSE IF policy = "error"
            THEN [status |-> DealStatusErrored, err |-> "deal filter failed", deal |-> d1]
            ELSE IF policy = "reject"
            THEN [status |-> DealStatusRejected, err |-> "deal rejected", deal |-> d1]
            ELSE [status |-> AcceptedStatus(d1), err |-> Nil, deal |-> d1]

\* acceptDeal: status, error and the deal it leaves.  pieceInfo is the answer of
\* GetPieceInfoFromCid, policy that of the retrieval deal filter
AcceptDeal(d, pieceInfo, policy) ==
    IF pieceInfo.err = "not found"
    THEN [status |-> DealStatusDealNotFound, err |-> "not found", deal |-> d]
    ELSE IF pieceInfo.err # Nil
    THEN [status |-> DealStatusErrored, err |-> pieceInfo.err, deal |-> d]
    ELSE LET scan == ScanCandidates(pieceInfo.deals, 1, d.SelStorageProposalCid)
             d1 == [d EXCEPT !.SelStorageProposalCid = scan.sel]
             chk == IF scan.ask = NoAsk THEN Nil ELSE CheckDealParams(scan.ask, d1)
         IN IF scan.ask = NoAsk
            \* the err of the loop body is its own; the function's err is still nil
            THEN [status |-> DealStatusErrored, err |-> Nil, deal |-> d1]
            ELSE IF chk # Nil
            THEN [status |-> DealStatusRejected, err |-> chk, deal |-> d1]
            ELSE IF policy = "error"
            THEN [status |-> DealStatusErrored, err |-> "deal filter failed", deal |-> d1]
            ELSE IF policy = "reject"
            THEN [status |-> DealStatusRejected, err |-> "deal rejected", deal |-> d1]
            ELSE [status |-> AcceptedStatus(d1), err |-> Nil, deal |-> d1]

\* a response that asks for payment whatever the status
ResponseAlwaysOwes(id, status, d) ==
    [ID |-> id, Status |-> status, Message |-> "", PaymentOwed |-> d.UnsealPrice + 1]

\* validatePull, lines 143-150
Response(id, status, d) ==
    [ID |-> id, Status |-> status, Message |-> "",
     PaymentOwed |-> IF status = DealStatusFundsNeededUnseal
                     THEN d.UnsealPrice ELSE NilAmount]

\* a save that leaves FundsReceived as built
DealToSaveKeepsFunds(d) ==
    IF d.UnsealPrice > 0
    THEN [d EXCEPT !.Status = DealStatusFundsNeededUnseal, !.TotalSent = 0]
    ELSE [d EXCEPT !.TotalSent = 0]

\* validatePull, lines 157-164: the deal that is saved
DealToSave(d) ==
    IF d.UnsealPrice > 0
    THEN [d EXCEPT !.Status = DealStatusFundsNeededUnseal, !.TotalSent = 0]
    ELSE [d EXCEPT !.TotalSent = 0, !.FundsReceived = 0]

\* a downgrade that loses the message
VoucherResultDropsMessage(r, legacy) ==
    IF r = NoResponse THEN NoResponse
    ELSE [legacy |-> legacy, ID |-> r.ID, Status |-> r.Status,
          Message |-> IF legacy THEN "" ELSE r.Message, PaymentOwed |-> r.PaymentOwed]

\* ValidatePull, lines 86-98: the voucher result handed back
VoucherResult(r, legacy) ==
    IF r = NoResponse THEN NoResponse
    ELSE [legacy |-> legacy, ID |-> r.ID, Status |-> r.Status,
          Message |-> r.Message, PaymentOwed |-> r.PaymentOwed]

NoPieceInfo == [err |-> "not asked", deals |-> <<>>]

\* a restart that pauses the transfer
NoDecisionPauses == ErrPause

\* validatePull, lines 128-130: the error returned for a restart
NoDecision == Nil

\* a save after which the transfer is let run
AfterSaveDealResumes(saveOk) == IF saveOk THEN Nil ELSE "save deal"

\* validatePull, lines 166-174: the error returned once SaveDeal was called
AfterSaveDeal(saveOk) == IF saveOk THEN ErrPause ELSE "save deal"

\* a validatePull that goes on to save whatever acceptDeal returned
ReturnsBeforeSaveNever(e) == e # e

\* validatePull, lines 151-154: if err != nil, return the response and err
ReturnsBeforeSave(e) == e # Nil

\* validatePull, lines 107-175: response, error, the deal built and whether it
\* was saved.  pieceInfo is the answer of GetPieceInfoFromCid with the asks of
\* its candidates, policy that of the deal filter, saveOk that of SaveDeal
validatePull(isRestart, receiver, proposal, legacy, baseCid, node, pieceInfo, policy, saveOk) ==
    IF proposal.PayloadCID # baseCid
    THEN [response |-> NoResponse, err |-> "incorrect CID for this proposal",
          deal |-> NoDeal, saved |-> FALSE, path |-> "cid"]
    ELSE IF node = "invalid"
    THEN [response |-> NoResponse, err |-> "encode selector",
          deal |-> NoDeal, saved |-> FALSE, path |-> "encode"]
    ELSE IF EncodeSelector(node) #
            (IF SelectorSpecified(proposal) THEN proposal.Selector ELSE allSelectorBytes)
    THEN [response |-> NoResponse, err |-> "incorrect selector for this proposal",
          deal |-> NoDeal, saved |-> FALSE, path |-> "selector"]
    ELSE IF isRestart
    THEN [response |-> NoResponse, err |-> NoDecision,
          deal |-> NoDeal, saved |-> FALSE, path |-> "restart"]
    ELSE LET pds == NewDealState(proposal, receiver, legacy)
             acc == AcceptDeal(pds, pieceInfo, policy)
             response == Response(proposal.ID, acc.status, acc.deal)
             d == DealToSave(acc.deal)
         IN IF ReturnsBeforeSave(acc.err)
            THEN [response |-> [response EXCEPT !.Message = acc.err], err |-> acc.err,
                  deal |-> acc.deal, saved |-> FALSE, path |-> "accept"]
            ELSE IF ~saveOk
            THEN [response |-> [response EXCEPT !.Message = AfterSaveDeal(FALSE)],
                  err |-> AfterSaveDeal(FALSE), deal |-> d, saved |-> FALSE,
                  path |-> "save"]
            ELSE [response |-> response, err |-> AfterSaveDeal(TRUE),
                  deal |-> d, saved |-> TRUE, path |-> "none"]

\* ValidatePull, lines 72-99: the voucher is a DealProposal, a DealProposal0
\* that is migrated, or neither; a response is downgraded for a legacy peer
ValidatePullResult(isRestart, v, receiver, baseCid, node, pieceInfo, policy, saveOk) ==
    IF v.kind = "wrong"
    THEN [response |-> NoResponse, err |-> "wrong voucher type",
          deal |-> NoDeal, saved |-> FALSE, path |-> "voucher"]
    ELSE LET legacy == v.kind = "legacy"
             proposal == IF legacy THEN MigrateDealProposal0To1(v.p) ELSE v.p
             r == validatePull(isRestart, receiver, proposal, legacy, baseCid, node,
                               pieceInfo, policy, saveOk)
         IN [r EXCEPT !.response = VoucherResult(r.response, legacy)]

ValidateReturn(r, e, o) ==
    /\ resp' = r
    /\ ret' = e
    /\ obs' = o
    /\ op' = "ValidatePull"
    /\ pc' = "done"
    /\ UNCHANGED <<state, err, errRetryCount, Env>>

\* ValidatePull on a voucher drawn from vouchers, a selector node from nodes,
\* candidate storage deals from candidateLists.  The collaborators answer only
\* when the code gets to ask them.
ValidatePull(vouchers, nodes, candidateLists) ==
    /\ Idle
    /\ \E isRestart \in BOOLEAN, v \in vouchers, baseCid \in {"c1", "c2"}, node \in nodes :
       LET accepts(pi, pol) ==
               ValidatePullResult(isRestart, v, "peer", baseCid, node,
                                  [pi EXCEPT !.deals = Resolve(@, asks)], pol, TRUE)
           early == accepts(NoPieceInfo, "accept").path # "accept"
       IN \E pieceInfo \in IF early THEN {NoPieceInfo}
                            ELSE [err : {"not found", "lookup failed"}, deals : {<<>>}]
                                 \cup [err : {Nil}, deals : candidateLists] :
          \E policy \in IF accepts(pieceInfo, "accept").path = "none"
                         THEN {"accept", "reject", "error"} ELSE {"accept"} :
          \E saveOk \in IF accepts(pieceInfo, policy).path = "none"
                         THEN BOOLEAN ELSE {TRUE} :
             LET out == ValidatePullResult(isRestart, v, "peer", baseCid, node,
                                           [pieceInfo EXCEPT !.deals = Resolve(@, asks)],
                                           policy, saveOk)
                 req == [isRestart |-> isRestart, v |-> v, baseCid |-> baseCid,
                         node |-> node, pieceInfo |-> pieceInfo, policy |-> policy,
                         saveOk |-> saveOk]
                 o == [obs0 EXCEPT !.path = out.path, !.req = req]
             IN /\ deal' = out.deal
                /\ store' = IF out.saved THEN SaveDeal(store, out.deal) ELSE store
                /\ ValidateReturn(out.response, out.err,
                                  IF out.saved THEN Wrote(o, out.deal) ELSE o)
    /\ UNCHANGED Others

\* IRetrievalAskRepo.SetAsk: a provider publishes its terms
SetAsk(providers, terms) ==
    /\ Idle
    /\ \E m \in providers, a \in terms :
         /\ (m \in DOMAIN asks) => asks[m] # a
         /\ asks' = (m :> a) @@ asks
    /\ UNCHANGED <<store, deal, op, pc, ret, resp, state, err, errRetryCount,
                   ctxDone, deadline, piecePresent, obs>>
    /\ UNCHANGED Others

\* a data-transfer channel is opened for a deal and recorded in it
ChannelOpened(id) ==
    /\ Idle
    /\ Saved(id)
    /\ store[id].ChannelID = NoChannel
    /\ store' = [store EXCEPT ![id].ChannelID = "ch1"]
    /\ UNCHANGED <<deal, op, pc, ret, resp, state, err, errRetryCount, Env, obs>>
    /\ UNCHANGED Others

\* the operation has returned: its caller goes on, the call's locals are gone
Finish ==
    /\ pc = "done"
    /\ pc' = "idle"
    /\ deal' = NoDeal
    /\ op' = "none"
    /\ ret' = Nil
    /\ resp' = NoResponse
    /\ state' = UnsealStateFailed
    /\ err' = Nil
    /\ errRetryCount' = 0
    /\ ctxDone' = FALSE
    /\ deadline' = FALSE
    /\ obs' = obs0
    /\ UNCHANGED <<store, piecePresent, asks>>
    /\ UNCHANGED Others

\* the provider process dies in the middle of UnsealData and is started
\* again: the call and its locals are gone, the repository is as it was left
Crash ==
    /\ op = "UnsealData"
    /\ pc \notin {"idle", "done"}
    /\ obs.crash.n < MaxCrashes
    /\ pc' = "idle"
    /\ deal' = NoDeal
    /\ op' = "none"
    /\ ret' = Nil
    /\ resp' = NoResponse
    /\ state' = UnsealStateFailed
    /\ err' = Nil
    /\ errRetryCount' = 0
    /\ ctxDone' = FALSE
    /\ deadline' = FALSE
    /\ obs' = [obs0 EXCEPT !.crash = [n |-> obs.crash.n + 1,
                                      called |-> obs.crash.called \/ obs.calls > 0]]
    /\ UNCHANGED <<store, piecePresent, asks>>
    /\ UNCHANGED Others

(* ---------------------- paychmgr.BestSpendableByLane -------------------- *)

\* no call yet on a channel without vouchers
pay0 == [pc |-> "idle", vouchers |-> <<>>, i |-> 0, bestByLane |-> <<>>,
         ret |-> [none |-> TRUE]]

\* a comparison that lets an equal amount replace the voucher kept
GreaterOrEqual(a, b) == a >= b

\* voucher.Amount.GreaterThan(bestByLane[voucher.Lane].Amount)
GreaterThan(a, b) == a > b

\* lines 28-32: the map once voucher i of vs has been found spendable; a
\* voucher pointer is the index of the voucher in the list
KeepBest(best, vs, i) ==
    LET lane == vs[i].Lane
    IN IF lane \notin DOMAIN best \/ GreaterThan(vs[i].Amount, vs[best[lane]].Amount)
       THEN (lane :> i) @@ best
       ELSE best

\* lines 16-22: PaychVoucherList, then the empty map
BestSpendableByLane ==
    /\ pay.pc = "idle"
    /\ \E ok \in BOOLEAN :
         pay' = IF ok
                THEN [pay EXCEPT !.pc = "loop", !.i = 1, !.bestByLane = <<>>]
                ELSE [pay EXCEPT !.pc = "done",
                                 !.ret = [map |-> <<>>, err |-> "voucher list"]]
    /\ UNCHANGED <<Provider, dag>>

\* lines 23-33: PaychVoucherCheckSpendable on the next voucher
BestCheckSpendable ==
    /\ pay.pc = "loop"
    /\ pay.i <= Len(pay.vouchers)
    /\ pay' = CASE pay.vouchers[pay.i].spendable = "err" ->
                     [pay EXCEPT !.pc = "done",
                                 !.ret = [map |-> <<>>, err |-> "check spendable"]]
               [] pay.vouchers[pay.i].spendable = "yes" ->
                     [pay EXCEPT !.i = @ + 1,
                                 !.bestByLane = KeepBest(@, pay.vouchers, pay.i)]
               [] OTHER -> [pay EXCEPT !.i = @ + 1]
    /\ UNCHANGED <<Provider, dag>>

\* line 34: return bestByLane, nil
BestReturn ==
    /\ pay.pc = "loop"
    /\ pay.i > Len(pay.vouchers)
    /\ pay' = [pay EXCEPT !.pc = "done",
                          !.ret = [map |-> pay.bestByLane, err |-> Nil]]
    /\ UNCHANGED <<Provider, dag>>

(* -------------------------- dagstore marketAPI -------------------------- *)

Callers == 1..MaxCallers

\* no fetch running, nothing asked
NoFetch == [pc |-> "idle", err |-> Nil]

\* NewMarketAPI: the throttle is throttle.Fixed(concurrency), all slots free
NewMarketAPI(useTransient, concurrency) ==
    [useTransient |-> useTransient,
     throttle |-> [size |-> concurrency, free |-> concurrency],
     fetch |-> [c \in Callers |-> NoFetch],
     unsealed |-> [none |-> TRUE]]

\* the marketAPI of the provider's own dagstore wrapper
dag0 == NewMarketAPI(FALSE, 1)

\* a test for the one error value only
IsNotFoundForReadExact(e) == e = "not found for read"

\* errors.Is(err, piecestorage.ErrorNotFoundForRead)
IsNotFoundForRead(e) == e \in {"not found for read", "wrapped: not found for read"}

\* what FindStorageForRead can answer given where the piece is
FindStorageForRead ==
    IF piecePresent THEN {"found", "storage error"}
    ELSE {"not found for read", "wrapped: not found for read", "storage error"}

\* IsUnsealed, lines 68-79
IsUnsealed ==
    /\ \E res \in FindStorageForRead :
         dag' = [dag EXCEPT !.unsealed =
                    IF res = "found" THEN [res |-> res, ok |-> TRUE, err |-> Nil]
                    ELSE IF IsNotFoundForRead(res)
                    THEN [res |-> res, ok |-> FALSE, err |-> Nil]
                    ELSE [res |-> res, ok |-> FALSE, err |-> res]]
    /\ dag'.unsealed # dag.unsealed
    /\ UNCHANGED <<Provider, pay>>

\* a step of the FetchFromPieceStorage call of caller c: to pc next when the
\* collaborator succeeds, to the return of its error when it fails
FetchStep(c, at, next, results, failure) ==
    /\ dag.fetch[c].pc = at
    /\ \E res \in results :
         dag' = [dag EXCEPT !.fetch[c] =
                    IF res \in {"ok", "found"}
                    THEN [pc |-> next, err |-> Nil]
                    ELSE [pc |-> "done", err |-> failure]]
    /\ UNCHANGED <<Provider, pay>>

\* lines 81-85: pieceRepo.GetPieceSize
FetchGetPieceSize(c) == FetchStep(c, "idle", "find", {"ok", "fail"}, "get piece size")

\* lines 87-90: FindStorageForRead
FetchFindStorage(c) == FetchStep(c, "find", "len", FindStorageForRead, "find piece for read")

\* lines 92-96: pieceStorage.Len
FetchLen(c) == FetchStep(c, "len", "reader", {"ok", "fail"}, "len")

\* lines 100-120: the reader of the piece, inflated when useTransient
FetchReader(c) ==
    FetchStep(c, "reader", "done",
              IF dag.useTransient THEN {"ok", "fail", "inflate"} ELSE {"ok", "fail"},
              "get reader")

\* the caller has its reader or its error
FetchReturn(c) ==
    /\ dag.fetch[c].pc = "done"
    /\ dag' = [dag EXCEPT !.fetch[c] = NoFetch]
    /\ UNCHANGED <<Provider, pay>>

(* ------------------------------ inputs --------------------------------- *)

Prices == 0..MaxPrice

\* the published terms of a provider
Asks == [PricePerByte : {0}, PaymentInterval : {1}, PaymentIntervalIncrease : {1},
         UnsealPrice : Prices]

Proposals ==
    [PayloadCID : {"c1"}, ID : DealIDs, Selector : {NoSelector},
     PricePerByte : {0}, PaymentInterval : {1}, PaymentIntervalIncrease : {1},
     UnsealPrice : Prices]

Proposals0 ==
    {<<p.PayloadCID, p.ID, <<p.Selector, p.PricePerByte, p.PaymentInterval,
                             p.PaymentIntervalIncrease, p.UnsealPrice>>>> : p \in Proposals}

Vouchers == [kind : {"current"}, p : Proposals]
            \cup [kind : {"legacy"}, p : Proposals0]
            \cup {[kind |-> "wrong"]}

\* the active storage deals of the payload with what their provider's config
\* answers and, for those it knows, whether GetAsk answers
Candidates ==
    {c \in [ProposalCid : {"p1"}, cfg : {"ok", "nocfg", "noaddr"}, getAsk : BOOLEAN] :
        c.cfg # "ok" => c.getAsk}

RECURSIVE SeqsUpTo(_, _)
SeqsUpTo(S, n) ==
    IF n = 0 THEN {<<>>}
    ELSE LET shorter == SeqsUpTo(S, n - 1)
         IN shorter \cup {Append(q, x) : q \in shorter, x \in S}

CandidateLists == SeqsUpTo(Candidates, MaxCandidates) \ {<<>>}

\* a payload held in one storage deal
SingleCandidate == {<<c>> : c \in Candidates}

(* --------------------------- specification ----------------------------- *)

\* no operation is running
InitLocals ==
    /\ deal = NoDeal
    /\ op = "none"
    /\ pc = "idle"
    /\ ret = Nil
    /\ resp = NoResponse
    /\ state = UnsealStateFailed
    /\ err = Nil
    /\ errRetryCount = 0
    /\ ctxDone = FALSE
    /\ deadline = FALSE
    /\ obs = obs0

\* the retrieval provider after construction
InitProvider ==
    /\ store = <<>>
    /\ piecePresent \in BOOLEAN
    /\ asks = <<>>
    /\ InitLocals

Init ==
    /\ InitProvider
    /\ pay = pay0
    /\ dag = dag0

Next ==
    \/ ValidatePull(Vouchers, {"all", "sub"}, SingleCandidate)
    \/ SetAsk({"m1"}, Asks)
    \/ \E id \in DealIDs : ChannelOpened(id)
    \/ \E id \in DealIDs : UnsealStart(id)
    \/ UnsealGetDeal
    \/ UnsealFindRead
    \/ UnsealFindWrite
    \/ UnsealGetTransfer
    \/ UnsealPoll
    \/ UnsealTick
    \/ UnsealTimeout
    \/ UnsealPrepare
    \/ UnsealSaveUnsealed
    \/ UnsealResume
    \/ CtxCancel
    \/ DeadlineExpires
    \/ \E id \in DealIDs : CancelDeal(id)
    \/ \E id \in DealIDs : CleanupDeal(id)
    \/ \E id \in DealIDs : ErrorDeal(id)
    \/ Finish

Spec == Init /\ [][Next]_vars

(* ---------------- the validator on requests of every shape -------------- *)

\* asks that differ in price per byte and unseal price
AsksV == [PricePerByte : Prices, PaymentInterval : {1}, PaymentIntervalIncrease : {1},
          UnsealPrice : Prices]

\* an explicit selector, no selector, and the CBOR null that counts as none
SelectorsV == {NoSelector, CborNull, EncodeSelector("sub")}

\* what a client may offer for unsealing: as much as any ask, or more
Offers == 0..(MaxPrice + 1)

\* proposals that meet or miss each term of an ask: they depart from the
\* plain proposal (no selector, the ask's intervals, nothing offered for
\* unsealing) in the selector, in an interval or in the unseal price
ProposalsV ==
    {[PayloadCID |-> "c1", ID |-> id, Selector |-> x[1], PricePerByte |-> 0,
      PaymentInterval |-> x[2], PaymentIntervalIncrease |-> x[3], UnsealPrice |-> x[4]] :
        id \in DealIDs,
        x \in {<<sel, 1, 1, 0>> : sel \in SelectorsV}
              \cup {<<NoSelector, 2, 1, 0>>, <<NoSelector, 1, 2, 0>>}
              \cup {<<NoSelector, 1, 1, u>> : u \in Offers}}

Proposals0V ==
    {<<p.PayloadCID, p.ID, <<p.Selector, p.PricePerByte, p.PaymentInterval,
                             p.PaymentIntervalIncrease, p.UnsealPrice>>>> : p \in ProposalsV}

VouchersV == [kind : {"current"}, p : ProposalsV]
             \cup [kind : {"legacy"}, p : Proposals0V]
             \cup {[kind |-> "wrong"]}

NextV ==
    \/ ValidatePull(VouchersV, {"all", "sub", "invalid"}, CandidateLists)
    \/ SetAsk({"m1"}, AsksV)
    \/ Finish

InitV == Init /\ ~piecePresent

SpecV == InitV /\ [][NextV]_vars

(* ------------- acceptDeal on payloads held in several deals ------------- *)

\* storage deals of two providers
CandidatesA ==
    {c \in [ProposalCid : {"p1", "p2"}, cfg : {"ok", "nocfg", "noaddr"}, getAsk : BOOLEAN] :
        c.cfg # "ok" => c.getAsk}

CandidateListsA == SeqsUpTo(CandidatesA, MaxScan) \ {<<>>}

VouchersA == [kind : {"current"}, p : Proposals]

NextA ==
    \/ ValidatePull(VouchersA, {"all"}, CandidateListsA)
    \/ SetAsk(Providers, Asks)
    \/ Finish

SpecA == InitV /\ [][NextA]_vars

(* ------------- the handler on the deals the validator saved ------------ *)

\* the repository after one provider published an ask and the validator
\* accepted and saved one pull request
InitH ==
    /\ InitLocals
    /\ piecePresent \in BOOLEAN
    /\ pay = pay0
    /\ dag = dag0
    /\ \E a \in Asks, p \in Proposals, legacy \in BOOLEAN, cl \in SeqsUpTo(Candidates, 1) :
         LET repo == "m1" :> a
             r == validatePull(FALSE, "peer", p, legacy, p.PayloadCID, "all",
                               [err |-> Nil, deals |-> Resolve(cl, repo)], "accept", TRUE)
         IN /\ r.saved
            /\ asks = repo
            /\ store = SaveDeal(<<>>, r.deal)

\* the steps of a running UnsealData
UnsealStep ==
    \/ UnsealGetDeal
    \/ UnsealFindRead
    \/ UnsealFindWrite
    \/ UnsealGetTransfer
    \/ UnsealPoll
    \/ UnsealTick
    \/ UnsealTimeout
    \/ UnsealPrepare
    \/ UnsealSaveUnsealed
    \/ UnsealResume

NextH ==
    \/ \E id \in DealIDs : ChannelOpened(id)
    \/ \E id \in DealIDs : UnsealStart(id)
    \/ UnsealStep
    \/ CtxCancel
    \/ DeadlineExpires
    \/ Finish

\* UnsealData and the ctx of its caller
SpecH == InitH /\ [][NextH]_vars

\* the goroutine that runs UnsealData is scheduled
LiveSpecH == SpecH /\ WF_vars(UnsealStep)

\* UnsealData in a process that may die and be started again
SpecR == InitH /\ [][NextH \/ Crash]_vars

(* ------------- BestSpendableByLane on every short voucher list --------- *)

Lanes == {1, 2}
Amounts == {1, 2}

\* a voucher of the channel and what PaychVoucherCheckSpendable says of it
SignedVouchers == [Lane : Lanes, Amount : Amounts, spendable : {"yes", "no", "err"}]

VoucherLists == SeqsUpTo(SignedVouchers, MaxVouchers)

InitB ==
    /\ InitProvider
    /\ ~piecePresent
    /\ \E vs \in VoucherLists :
         /\ pay = [pay0 EXCEPT !.vouchers = vs]
         /\ dag = dag0

NextB ==
    \/ BestSpendableByLane
    \/ BestCheckSpendable
    \/ BestReturn

SpecB == InitB /\ [][NextB]_vars

(* ------------------- concurrent callers of the marketAPI ---------------- *)

InitD ==
    /\ InitProvider
    /\ pay = pay0
    /\ \E useTransient \in BOOLEAN, concurrency \in 1..MaxConcurrency :
         dag = NewMarketAPI(useTransient, concurrency)

NextD ==
    \/ IsUnsealed
    \/ \E c \in Callers : FetchGetPieceSize(c)
    \/ \E c \in Callers : FetchFindStorage(c)
    \/ \E c \in Callers : FetchLen(c)
    \/ \E c \in Callers : FetchReader(c)
    \/ \E c \in Callers : FetchReturn(c)

SpecD == InitD /\ [][NextD]_vars

TypeOK ==
    /\ pc \in {"idle", "getDeal", "findRead", "findWrite", "getTransfer", "poll",
               "wait", "woken", "prepare", "saveUnsealed", "resume", "done"}
    /\ errRetryCount \in 0..(errRetry + 1)
    /\ DOMAIN store \subseteq DealIDs
    /\ DOMAIN asks \subseteq Providers
    /\ \A m \in DOMAIN asks : asks[m] \in Asks \cup AsksV

(* ------------------------------- claims -------------------------------- *)

Returned(name) == op = name /\ pc = "done"

Persisted == store[deal.ID].Status

\* C1: in one UnsealData run on a piece no backend holds, five failed remote
\* calls followed by Finished let the run go on to success (it prepares the
\* blockstore and, nothing else failing, returns nil with the deal Unsealed);
\* the run gives up exactly at the sixth failed call, with an error, and so
\* never makes a seventh.
C1_RetryBound ==
    /\ errRetryCount <= errRetry + 1
    /\ errRetryCount > errRetry =>
          /\ Returned("UnsealData")
          /\ ret # Nil
          /\ obs.path = "retry"
          /\ obs.prepare = "none"
    /\ (op = "UnsealData" /\ obs.path = "retry") => errRetryCount > errRetry
    /\ (Returned("UnsealData") /\ state = UnsealStateFinished /\ ~obs.lastErr
          /\ errRetryCount <= errRetry) => obs.prepare # "none"
    /\ (Returned("UnsealData") /\ state = UnsealStateFinished /\ ~obs.lastErr
          /\ errRetryCount <= errRetry /\ obs.path = "none") =>
          /\ ret = Nil
          /\ Persisted = DealStatusUnsealed

C1_Witness ==
    /\ Returned("UnsealData")
    /\ ~obs.found
    /\ errRetryCount = errRetry
    /\ obs.calls = errRetry + 1
    /\ state = UnsealStateFinished
    /\ ~obs.lastErr
    /\ ret = Nil
    /\ Persisted = DealStatusUnsealed

\* C2: when FindStorageForRead reports the piece present, UnsealData makes no
\* SectorsUnsealPiece call and selects no write backend, and if preparation
\* and persistence succeed the persisted status goes from Unsealing straight
\* to Unsealed.
C2_FastPath ==
    (op = "UnsealData" /\ obs.found) =>
        /\ obs.calls = 0
        /\ ~obs.findWrite
        /\ pc \notin {"findWrite", "getTransfer", "poll", "wait"}
        /\ (obs.prepare = "ok" /\ Len(obs.writes) >= 2) =>
              /\ obs.writes[1] = DealStatusUnsealing
              /\ obs.writes[2] = DealStatusUnsealed
        /\ (pc = "done" /\ obs.path = "none") =>
              /\ obs.writes = <<DealStatusUnsealing, DealStatusUnsealed, DealStatusUnsealed>>
              /\ Persisted = DealStatusUnsealed

C2_Witness ==
    /\ Returned("UnsealData")
    /\ obs.found
    /\ obs.prepare = "ok"
    /\ obs.calls = 0
    /\ Persisted = DealStatusUnsealed

\* C3: when the 12 hour deadline runs out while UnsealData waits in the poll
\* loop and the caller's ctx is not cancelled, UnsealData returns a non-nil
\* error.
C3_DeadlineIsAnError ==
    (Returned("UnsealData") /\ obs.path = "deadline") => ret # Nil

\* C4: after UnsealData returns on one of its failure paths the persisted
\* status of the deal is neither Unsealing nor Unsealed.
C4_FailureIsPersisted ==
    (Returned("UnsealData")
       /\ obs.path \in {"getDeal", "findWrite", "getTransfer", "retry", "failed",
                        "deadline", "prepare", "resume"}) =>
        Persisted \notin {DealStatusUnsealing, DealStatusUnsealed}

\* C5 as stated: once the persisted status of a deal is Completed, Cancelled
\* or Errored, no later operation changes it to a different status.
C5_TerminalIsFinal ==
    [][\A id \in DOMAIN store :
          store[id].Status \in TerminalStatuses =>
              store'[id].Status = store[id].Status]_vars

\* C5 as amended: within one invocation of ValidatePull, UnsealData,
\* CancelDeal, CleanupDeal or Error, a terminal status is the last status the
\* invocation persists: having written Completed, Cancelled or Errored it
\* writes nothing more.
C5_TerminalWriteIsLast ==
    \A i \in 1..Len(obs.writes) :
        obs.writes[i] \in TerminalStatuses => i = Len(obs.writes)

C5_Witness ==
    /\ Returned("UnsealData")
    /\ Len(obs.writes) = 2
    /\ obs.writes[2] = DealStatusCancelled
    /\ Persisted = DealStatusCancelled

\* C6: when PrepareBlockstore fails, UnsealData returns a non-nil error, the
\* deal never reaches Unsealed and its transfer is not resumed.
C6_PrepareFailureSurfaces ==
    (Returned("UnsealData") /\ obs.prepare = "fail") =>
        /\ ret # Nil
        /\ \A i \in 1..Len(obs.writes) : obs.writes[i] # DealStatusUnsealed
        /\ obs.resume = "none"

\* C7: when resuming the transfer fails, UnsealData persists Errored and does
\* not return success.
C7_ResumeFailureSurfaces ==
    (Returned("UnsealData") /\ obs.resume = "fail") =>
        /\ ret # Nil
        /\ deal.Status = DealStatusErrored

\* C8: a CancelDeal whose DeleteStore succeeds and whose CloseDataTransfer
\* reports ErrTerminated, or whose deal has no channel so that close is not
\* called, sets Cancelled, persists it and returns only what SaveDeal returned.
C8_CancelTolerant ==
    Returned("CancelDeal") =>
        /\ obs.close = "none" <=> (obs.delete = "fail" \/ obs.pre.ChannelID = NoChannel)
        /\ (obs.delete = "ok" /\ obs.close \in {"terminated", "none"}) =>
              /\ deal.Status = DealStatusCancelled
              /\ obs.writes # <<>> => (Persisted = DealStatusCancelled /\ ret = Nil)
              /\ obs.writes = <<>> => ret = "save deal"

C8_Witness ==
    /\ Returned("CancelDeal")
    /\ obs.close = "terminated"
    /\ Persisted = DealStatusCancelled
    /\ ret = Nil

\* C9: a CancelDeal or CleanupDeal whose SaveDeal succeeds persists exactly
\* one status: Cancelled resp. Completed when teardown succeeded, Errored when
\* DeleteStore failed or the close failed with another error than
\* ErrTerminated.
C9_OneStatusWrite ==
    ((Returned("CancelDeal") \/ Returned("CleanupDeal")) /\ obs.writes # <<>>) =>
        LET tornDown == obs.delete = "ok" /\ obs.close # "fail"
            want == IF ~tornDown THEN DealStatusErrored
                    ELSE IF op = "CancelDeal" THEN DealStatusCancelled
                    ELSE DealStatusCompleted
        IN /\ obs.writes = <<want>>
           /\ Persisted = want

C9_Witness ==
    /\ Returned("CleanupDeal")
    /\ obs.delete = "fail"
    /\ obs.pre.Status \notin TerminalStatuses
    /\ Persisted = DealStatusErrored

\* C10: Error sets the status to Errored, makes the message that of err when
\* err is not nil and leaves it alone when err is nil, changes no other field,
\* and saves the deal.
C10_ErrorFrame ==
    Returned("Error") =>
        /\ deal.Status = DealStatusErrored
        /\ obs.arg # Nil => deal.Message = obs.arg
        /\ obs.arg = Nil => deal.Message = obs.pre.Message
        /\ \A f \in DOMAIN obs.pre \ {"Status", "Message"} : deal[f] = obs.pre[f]
        /\ DOMAIN deal = DOMAIN obs.pre
        /\ obs.writes # <<>> => (store[deal.ID] = deal /\ ret = Nil)
        /\ obs.writes = <<>> => store[deal.ID] = obs.pre

C10_Witness ==
    /\ Returned("Error")
    /\ obs.arg = Nil
    /\ obs.pre.Message # ""
    /\ obs.pre.Status # DealStatusErrored
    /\ store[deal.ID] = deal

(* ------------------------ claims on the validator ----------------------- *)

\* a validation of a new (non-restart) pull request has returned
NewRequest == Returned("ValidatePull") /\ ~obs.req.isRestart

\* the proposal of the request, a legacy one as migrated
ReqProposal ==
    IF obs.req.v.kind = "legacy" THEN MigrateDealProposal0To1(obs.req.v.p) ELSE obs.req.v.p

\* the request went through the voucher, CID and selector checks
ShapeOk == obs.path \notin {"voucher", "cid", "encode", "selector"}

\* the ask the candidate scan came back with
AskObtained ==
    IF obs.req.pieceInfo.err # Nil THEN NoAsk
    ELSE ScanCandidates(Resolve(obs.req.pieceInfo.deals, asks), 1, Undef).ask

\* the new request met an ask, its terms were no worse and the filter agreed
PassedTermsAndPolicy ==
    /\ NewRequest
    /\ ShapeOk
    /\ AskObtained # NoAsk
    /\ ReqProposal.PricePerByte >= AskObtained.PricePerByte
    /\ ReqProposal.PaymentInterval <= AskObtained.PaymentInterval
    /\ ReqProposal.PaymentIntervalIncrease <= AskObtained.PaymentIntervalIncrease
    /\ ReqProposal.UnsealPrice >= AskObtained.UnsealPrice
    /\ obs.req.policy = "accept"

\* C11 as stated: a new request that passes the terms check and the policy
\* against an ask with unseal price > 0 gets FundsNeededUnseal with
\* PaymentOwed equal to the ask's unseal price.
C11_OwesAskPrice ==
    (PassedTermsAndPolicy /\ AskObtained.UnsealPrice > 0) =>
        /\ resp.Status = DealStatusFundsNeededUnseal
        /\ resp.PaymentOwed = AskObtained.UnsealPrice

\* C11: a new request that passes the terms check and the policy against an
\* ask with unseal price > 0 gets FundsNeededUnseal, and PaymentOwed is the
\* unseal price the proposal offers, which is the ask's or more.
C11_OwesOfferedPrice ==
    (PassedTermsAndPolicy /\ AskObtained.UnsealPrice > 0) =>
        /\ resp.Status = DealStatusFundsNeededUnseal
        /\ resp.PaymentOwed = ReqProposal.UnsealPrice
        /\ resp.PaymentOwed >= AskObtained.UnsealPrice

C11_Witness ==
    /\ PassedTermsAndPolicy
    /\ AskObtained.UnsealPrice > 0
    /\ ReqProposal.UnsealPrice > AskObtained.UnsealPrice
    /\ resp.PaymentOwed = ReqProposal.UnsealPrice
    /\ ret = ErrPause

WorseThanAsk ==
    /\ NewRequest
    /\ ShapeOk
    /\ AskObtained # NoAsk
    /\ \/ ReqProposal.PricePerByte < AskObtained.PricePerByte
       \/ ReqProposal.PaymentInterval > AskObtained.PaymentInterval
       \/ ReqProposal.PaymentIntervalIncrease > AskObtained.PaymentIntervalIncrease
       \/ ReqProposal.UnsealPrice < AskObtained.UnsealPrice

\* C13: a new request with a price per byte, payment interval, interval
\* increase or unseal price worse than the ask obtained for it is Rejected
\* with a non-empty reason (which is also the error returned) and nothing is
\* saved; no ValidatePull, on any path, changes the ask repository.
C13_WorseIsRejected ==
    /\ [](WorseThanAsk =>
            /\ resp.Status = DealStatusRejected
            /\ resp.Message # ""
            /\ ret = resp.Message
            /\ ret \notin {Nil, ErrPause}
            /\ obs.writes = <<>>)
    /\ [][op' = "ValidatePull" => asks' = asks]_vars

C13_Witness ==
    /\ WorseThanAsk
    /\ ReqProposal.PaymentIntervalIncrease > AskObtained.PaymentIntervalIncrease
    /\ resp.Status = DealStatusRejected
    /\ asks # <<>>

\* the selector the request must encode to: the proposal's explicit one, or
\* the explore-all selector
WantedSelector ==
    IF ReqProposal.Selector \in {NoSelector, CborNull}
    THEN <<161, 1>> ELSE ReqProposal.Selector

CidMismatch == obs.req.baseCid # ReqProposal.PayloadCID

SelectorMismatch == EncodeSelector(obs.req.node) # WantedSelector

\* voucher, CID and selector of the request are in order
ReqShapeOk ==
    /\ obs.req.v.kind # "wrong"
    /\ obs.req.node # "invalid"
    /\ ~CidMismatch
    /\ ~SelectorMismatch

Restarted == Returned("ValidatePull") /\ obs.req.isRestart

\* C14 as stated: restart validation always returns the no-op decision (nil
\* response, nil error), never runs acceptance and never writes the deal.
C14_RestartIsNoOp ==
    Restarted =>
        /\ resp = NoResponse
        /\ ret = Nil
        /\ deal = NoDeal
        /\ obs.writes = <<>>

\* C14: restart validation of a request whose voucher, CID and selector pass
\* the checks returns the no-op decision (nil response, nil error) whatever
\* the status of the stored deal; one that fails a check returns that check's
\* error; neither runs acceptance nor writes the deal record.
C14_CheckedRestartIsNoOp ==
    /\ [](Restarted =>
            /\ resp = NoResponse
            /\ ret # ErrPause
            /\ ret = Nil <=> ReqShapeOk
            /\ deal = NoDeal
            /\ obs.writes = <<>>)
    /\ [][(op' = "ValidatePull" /\ obs'.req.isRestart) => store' = store]_vars

C14_Witness ==
    /\ Restarted
    /\ ReqShapeOk
    /\ ret = Nil
    /\ Saved(ReqProposal.ID)
    /\ store[ReqProposal.ID].Status = DealStatusCompleted

\* C15 as stated: every new validation returns the pause sentinel.
C15_AlwaysPauses == NewRequest => ret = ErrPause

\* C15: a new validation returns the pause sentinel exactly when it has saved
\* the deal record; every other new validation returns an error, never nil,
\* so no new request lets data flow; a response with status Accepted or
\* FundsNeededUnseal comes without the pause sentinel only when SaveDeal
\* failed.
C15_PausesWhenSaved ==
    NewRequest =>
        /\ ret # Nil
        /\ ret = ErrPause <=> obs.writes # <<>>
        /\ ret = ErrPause => (resp # NoResponse /\ store[deal.ID] = deal)
        /\ (/\ resp # NoResponse
            /\ resp.Status \in {DealStatusAccepted, DealStatusFundsNeededUnseal}
            /\ ret # ErrPause) => ~obs.req.saveOk

C15_Witness ==
    /\ NewRequest
    /\ resp # NoResponse
    /\ resp.Status = DealStatusAccepted
    /\ ret = ErrPause
    /\ store[deal.ID] = deal

\* C16: when a new request is accepted, the saved record carries the status
\* of the response (Accepted or FundsNeededUnseal) and TotalSent = 0, and
\* FundsReceived is zero only when no unseal payment is pending.
C16_SavedStatusIsResponse ==
    (/\ NewRequest
     /\ obs.writes # <<>>
     /\ resp.Status \in {DealStatusAccepted, DealStatusFundsNeededUnseal}) =>
        /\ store[deal.ID].Status = resp.Status
        /\ store[deal.ID].TotalSent = 0
        /\ store[deal.ID].FundsReceived =
              IF resp.Status = DealStatusAccepted THEN 0 ELSE NilAmount

\* no candidate storage deal gave an ask
NoAskObtained ==
    /\ NewRequest
    /\ ReqShapeOk
    /\ obs.req.pieceInfo.err = Nil
    /\ AskObtained = NoAsk

\* C17: when no candidate yields an ask the new request fails as Errored:
\* ValidatePull returns an error other than the pause sentinel and does not
\* go on as an accepted deal (nothing is saved).
C17_NoAskFails ==
    NoAskObtained =>
        /\ resp.Status = DealStatusErrored
        /\ ret \notin {Nil, ErrPause}
        /\ obs.writes = <<>>

\* C18: every outcome of a new request is a response with a status, and a
\* failure (DealNotFound, Rejected, Errored, or a rejection of the request's
\* shape) carries a non-empty message.
C18_FailureHasMessage ==
    NewRequest =>
        /\ resp # NoResponse
        /\ resp.Status \in {DealStatusDealNotFound, DealStatusRejected, DealStatusErrored}
              => resp.Message # ""

\* C19: for restart and new requests alike, a base CID other than the
\* proposal's payload CID, or a selector that does not encode to the bytes of
\* the proposal's explicit selector (of the explore-all selector when it has
\* none), is rejected with that check's error; acceptance is not run and no
\* deal record is written.  A request that passes both is not rejected so.
C19_ShapeRejection ==
    (Returned("ValidatePull") /\ obs.req.v.kind # "wrong") =>
        /\ CidMismatch =>
              /\ ret = "incorrect CID for this proposal"
              /\ resp = NoResponse /\ deal = NoDeal /\ obs.writes = <<>>
        /\ (~CidMismatch /\ obs.req.node # "invalid" /\ SelectorMismatch) =>
              /\ ret = "incorrect selector for this proposal"
              /\ resp = NoResponse /\ deal = NoDeal /\ obs.writes = <<>>
        /\ ReqShapeOk =>
              ret \notin {"incorrect CID for this proposal",
                          "incorrect selector for this proposal"}

C19_Witness ==
    /\ Restarted
    /\ obs.req.v.kind # "wrong"
    /\ ~CidMismatch
    /\ ReqProposal.Selector = CborNull
    /\ obs.req.node = "sub"
    /\ ret = "incorrect selector for this proposal"
    /\ Saved(ReqProposal.ID)

\* the same proposal in the other voucher format
Twin(v) ==
    IF v.kind = "legacy"
    THEN [kind |-> "current", p |-> MigrateDealProposal0To1(v.p)]
    ELSE [kind |-> "legacy",
          p |-> <<v.p.PayloadCID, v.p.ID,
                  <<v.p.Selector, v.p.PricePerByte, v.p.PaymentInterval,
                    v.p.PaymentIntervalIncrease, v.p.UnsealPrice>>>>]

\* what ValidatePull answers to the request in the other voucher format
TwinResult ==
    ValidatePullResult(obs.req.isRestart, Twin(obs.req.v), "peer", obs.req.baseCid,
                       obs.req.node,
                       [obs.req.pieceInfo EXCEPT !.deals = Resolve(@, asks)],
                       obs.req.policy, obs.req.saveOk)

\* C20: a request in the legacy voucher format and the same request in the
\* current format get the same decision (status, ID, message, payment owed,
\* returned error or pause sentinel), each in its own response format, and
\* the same persisted record but for the LegacyProtocol flag.
C20_LegacyMakesNoDifference ==
    (Returned("ValidatePull") /\ obs.req.v.kind # "wrong") =>
        /\ TwinResult.err = ret
        /\ (TwinResult.response = NoResponse) <=> (resp = NoResponse)
        /\ resp # NoResponse =>
              /\ resp.legacy = (obs.req.v.kind = "legacy")
              /\ TwinResult.response = [resp EXCEPT !.legacy = ~@]
        /\ TwinResult.saved <=> (obs.writes # <<>>)
        /\ TwinResult.saved =>
              /\ store[deal.ID].LegacyProtocol = (obs.req.v.kind = "legacy")
              /\ TwinResult.deal = [store[deal.ID] EXCEPT !.LegacyProtocol = ~@]

C20_Witness ==
    /\ NewRequest
    /\ obs.req.v.kind = "legacy"
    /\ resp # NoResponse
    /\ resp.legacy
    /\ resp.Status = DealStatusFundsNeededUnseal
    /\ resp.PaymentOwed > 0
    /\ ret = ErrPause
    /\ store[deal.ID].LegacyProtocol

(* ---------------------- claims on BestSpendableByLane ------------------- *)

\* BestSpendableByLane has returned a map and no error
BestReturned == pay.pc = "done" /\ pay.ret.err = Nil

\* the vouchers of a lane the channel says are spendable
SpendableOfLane(lane) ==
    {j \in 1..Len(pay.vouchers) :
        pay.vouchers[j].Lane = lane /\ pay.vouchers[j].spendable = "yes"}

\* C21: when every call succeeds the map returned has a key for exactly the
\* lanes with a spendable voucher, and its value for a lane is the spendable
\* voucher of that lane with the largest amount, the first in list order of
\* those with that amount; the voucher list is never changed.
C21_BestPerLane ==
    /\ [](BestReturned =>
            /\ DOMAIN pay.ret.map = {lane \in Lanes : SpendableOfLane(lane) # {}}
            /\ \A lane \in DOMAIN pay.ret.map :
                  LET k == pay.ret.map[lane]
                  IN /\ k \in SpendableOfLane(lane)
                     /\ \A j \in SpendableOfLane(lane) :
                           /\ pay.vouchers[j].Amount <= pay.vouchers[k].Amount
                           /\ pay.vouchers[j].Amount = pay.vouchers[k].Amount => k <= j)
    /\ [][pay'.vouchers = pay.vouchers]_vars

C21_Witness ==
    /\ BestReturned
    /\ Len(pay.vouchers) = 3
    /\ SpendableOfLane(1) = {1, 2}
    /\ pay.vouchers[1].Amount = pay.vouchers[2].Amount
    /\ pay.vouchers[3].Lane = 2
    /\ pay.vouchers[3].spendable = "no"
    /\ DOMAIN pay.ret.map = {1}
    /\ pay.ret.map[1] = 1

(* ---------------------- claims on the dagstore marketAPI ---------------- *)

\* the callers whose FetchFromPieceStorage is reading piece storage
Fetching == {c \in Callers : dag.fetch[c].pc \in {"find", "len", "reader"}}

\* C22: the fetch path is gated by the fixed-size limiter: with a limit of N
\* at most N fetches are past the gate at any time (the others wait).
C22_FetchGated == Cardinality(Fetching) <= dag.throttle.size

\* C23: IsUnsealed answers (true, nil) when a backend holds the piece,
\* (false, nil) when the lookup fails with NotFoundForRead, bare or wrapped,
\* and (false, the error) when it fails otherwise.
C23_IsUnsealed ==
    dag.unsealed # [none |-> TRUE] =>
        CASE dag.unsealed.res = "found" ->
                 dag.unsealed.ok /\ dag.unsealed.err = Nil
          [] dag.unsealed.res \in {"not found for read", "wrapped: not found for read"} ->
                 ~dag.unsealed.ok /\ dag.unsealed.err = Nil
          [] OTHER ->
                 ~dag.unsealed.ok /\ dag.unsealed.err \notin {Nil, ""}

C23_Witness ==
    /\ dag.unsealed # [none |-> TRUE]
    /\ dag.unsealed.res = "not found for read"
    /\ ~dag.unsealed.ok
    /\ dag.unsealed.err = Nil
    /\ ~piecePresent

(* ------------------- claims on the course of UnsealData ----------------- *)

\* the statuses the running or last operation persisted
StatusesWritten == {obs.writes[k] : k \in 1..Len(obs.writes)}

\* an UnsealData run came to its end with no collaborator failing and its
\* ctx neither cancelled nor timed out in the loop
UnsealSucceeded == Returned("UnsealData") /\ obs.path = "none"

\* C24: UnsealData can be run again after a crash in the middle of it: a run
\* whose collaborators all succeed, be it the first or one after a crash,
\* returns nil with the deal persisted as Unsealed after the same writes, and
\* a run that finds the piece present makes no remote unseal call.
C24_Resumable ==
    UnsealSucceeded =>
        /\ ret = Nil
        /\ deal.Status = DealStatusUnsealed
        /\ store[deal.ID] = deal
        /\ obs.writes = <<DealStatusUnsealing, DealStatusUnsealed, DealStatusUnsealed>>
        /\ obs.prepare = "ok"
        /\ obs.found => obs.calls = 0

C24_Witness ==
    /\ UnsealSucceeded
    /\ obs.crash.n > 0
    /\ obs.crash.called
    /\ obs.found
    /\ obs.calls = 0
    /\ store[deal.ID].Status = DealStatusUnsealed

\* the remote service has answered in this run
Answered == op = "UnsealData" /\ obs.calls > 0

\* C25: an answer with state Failed ends the run at once with an error,
\* whatever the retry count: no wait for the ticker, no further call.
C25_FailedIsFinal ==
    (Answered /\ state = UnsealStateFailed) =>
        /\ pc = "done"
        /\ ret # Nil
        /\ obs.path \in {"failed", "retry"}
        /\ obs.prepare = "none"

C25_Witness ==
    /\ Answered
    /\ state = UnsealStateFailed
    /\ ~obs.lastErr
    /\ errRetryCount \in 1..errRetry
    /\ obs.path = "failed"
    /\ ret # Nil

\* the run did something besides saving the deal
UnsealActed ==
    \/ pc \in {"getDeal", "findRead", "findWrite", "getTransfer", "poll", "wait",
                "woken", "prepare", "saveUnsealed", "resume"}
    \/ obs.path \notin {"none", "save"}
    \/ obs.found \/ obs.findWrite \/ obs.calls > 0
    \/ obs.prepare # "none" \/ obs.resume # "none"

\* C26: the first thing UnsealData does is persist Unsealing: whatever else
\* it did, that write came first and succeeded, and when the write fails the
\* run returns its error having done nothing else.
C26_UnsealingFirst ==
    op = "UnsealData" =>
        /\ UnsealActed => (obs.writes # <<>> /\ obs.writes[1] = DealStatusUnsealing)
        /\ obs.writes = <<>> =>
              /\ pc = "done"
              /\ ret # Nil
              /\ ~UnsealActed

C26_Witness ==
    /\ Returned("UnsealData")
    /\ obs.writes = <<>>
    /\ ret = "save deal"
    /\ store[deal.ID].Status # DealStatusUnsealing

\* C27: the blockstore is prepared only once the piece was found present or
\* the remote service answered Finished; the transfer is resumed only after
\* Unsealed was persisted and only for a deal with a channel; a failed
\* Unsealed write returns the error without resuming.
C27_StepsInOrder ==
    op = "UnsealData" =>
        /\ (obs.prepare # "none" \/ pc = "prepare") =>
              (obs.found \/ (obs.calls > 0 /\ state = UnsealStateFinished))
        /\ pc = "resume" =>
              /\ obs.prepare = "ok"
              /\ obs.writes[Len(obs.writes)] = DealStatusUnsealed
              /\ store[deal.ID].Status = DealStatusUnsealed
        /\ obs.resume # "none" =>
              /\ DealStatusUnsealed \in StatusesWritten
              /\ deal.ChannelID # NoChannel
        /\ (pc = "done" /\ obs.prepare = "ok" /\ DealStatusUnsealed \notin StatusesWritten) =>
              /\ ret # Nil
              /\ obs.resume = "none"

C27_Witness ==
    /\ Returned("UnsealData")
    /\ obs.calls > 0
    /\ obs.prepare = "ok"
    /\ obs.resume = "ok"
    /\ obs.writes = <<DealStatusUnsealing, DealStatusUnsealed, DealStatusUnsealed>>

\* C28: when the caller's ctx is cancelled while UnsealData waits between
\* polls, the wait ends (no further tick or call), and UnsealData returns,
\* with a cancellation error that is not nil.
C28_CancelUnblocks ==
    /\ [][(pc = "wait" /\ ~deadline /\ ~ctxDone /\ ctxDone') => pc' = "woken"]_vars
    /\ [][(pc = "woken" /\ ctxDone) =>
            /\ pc' \in {"woken", "done"}
            /\ obs'.calls = obs.calls]_vars
    /\ (pc = "woken" /\ ctxDone) ~>
            (Returned("UnsealData") /\ obs.path = "cancel" /\ ret # Nil)
    /\ []((Returned("UnsealData") /\ obs.path = "cancel") => ret = "context canceled")

C28_Witness ==
    /\ op = "UnsealData"
    /\ pc = "woken"
    /\ ctxDone
    /\ ~deadline
    /\ obs.calls > 0

\* acceptDeal of the new request got candidate storage deals to scan
ScanRan == NewRequest /\ obs.req.pieceInfo.err = Nil

\* the candidates with the ask each one's provider would answer with
CandidatesSeen == Resolve(obs.req.pieceInfo.deals, asks)

Scanned == ScanCandidates(CandidatesSeen, 1, Undef)

\* the candidate's provider has a config with a retrieval payment address
Configured(i) == obs.req.pieceInfo.deals[i].cfg = "ok"

\* the configured candidates whose GetAsk gives an ask
Answering ==
    {i \in DOMAIN CandidatesSeen : Configured(i) /\ CandidatesSeen[i].ask # NoAsk}

FirstAnswering == CHOOSE i \in Answering : \A j \in Answering : i <= j

\* C29: acceptDeal scans the candidate storage deals in order: the asks
\* queried are, in list order, those of the candidates that have a provider
\* config with a payment address, up to and including the first whose GetAsk
\* succeeds (all of them when none does: a failure moves on to the next); no
\* unconfigured candidate and no candidate after that first one is queried,
\* and the terms of the request are checked against that first one's ask.
C29_ScanInOrder ==
    ScanRan =>
        LET asked == Scanned.asked
            last == IF Answering = {} THEN Len(CandidatesSeen) ELSE FirstAnswering
        IN /\ \A k \in 1..(Len(asked) - 1) : asked[k] < asked[k + 1]
           /\ {asked[k] : k \in DOMAIN asked} = {i \in 1..last : Configured(i)}
           /\ Answering # {} =>
                 LET ask == CandidatesSeen[FirstAnswering].ask
                     chk == CheckDealParams(ask, ReqProposal)
                 IN /\ Scanned.ask = ask
                    /\ chk # Nil => (resp.Status = DealStatusRejected /\ ret = chk)
                    /\ chk = Nil =>
                          ret \in {ErrPause, "deal rejected", "deal filter failed", "save deal"}

\* a failed GetAsk on the first candidate, then the ask of the second, whose
\* terms differ from those the first provider publishes
C29_Witness ==
    /\ ScanRan
    /\ Len(CandidatesSeen) = 2
    /\ Scanned.asked = <<1, 2>>
    /\ Answering = {2}
    /\ obs.req.pieceInfo.deals[1].ProposalCid = "p1"
    /\ obs.req.pieceInfo.deals[2].ProposalCid = "p2"
    /\ DOMAIN asks = {"m1", "m2"}
    /\ asks["m1"] # asks["m2"]
    /\ resp.Status = DealStatusAccepted

\* the validator saved the deal of the new request
ValidatorSaved == ScanRan /\ obs.writes # <<>>

\* a deal saved after an ask was found names the candidate of that ask
SelectedWhenAskUsed ==
    (ValidatorSaved /\ Answering # {}) =>
        store[deal.ID].SelStorageProposalCid = CandidatesSeen[FirstAnswering].ProposalCid

\* C30: every deal the validator persists has SelStorageProposalCid set, to
\* the proposal CID of the candidate whose ask the terms were checked against.
C30_SelectedDealRecorded ==
    ValidatorSaved =>
        /\ Answering # {}
        /\ store[deal.ID].SelStorageProposalCid # Undef
        /\ store[deal.ID].SelStorageProposalCid = CandidatesSeen[FirstAnswering].ProposalCid

\* saved with no candidate selected at all
SavedUnselected ==
    /\ ValidatorSaved
    /\ store[deal.ID].SelStorageProposalCid = Undef

\* saved naming a candidate whose ask could not be fetched
SavedSelectingFailed ==
    /\ ValidatorSaved
    /\ Answering = {}
    /\ store[deal.ID].SelStorageProposalCid = "p2"
    /\ Len(CandidatesSeen) = 2

\* C31: in UnsealData a FindStorageForRead error other than NotFoundForRead
\* ends the run with that error as returned value; only the NotFoundForRead
\* answer lets the run go on to FindStorageForWrite and the remote unseal.
C31_LookupErrorPropagates ==
    [][(op = "UnsealData" /\ pc = "findRead") =>
          /\ (err' = "error" => (pc' = "done" /\ ret' = "error"))
          /\ (pc' = "findWrite" => err' = "notFound")]_vars

\* the run swallowed a lookup error and went on to the remote unseal
LookupErrorSwallowed ==
    /\ op = "UnsealData"
    /\ pc = "findWrite"
    /\ err = "error"

\* C32: the retry counter of UnsealData counts the failed remote calls of the
\* invocation: a failed call adds one, a call that succeeds (in progress
\* included) leaves it as it is, and nothing else touches it while the
\* invocation runs; the call that brings it to errRetry + 1 ends the run with
\* an error, the run never gives up for retries before that, and an
\* invocation starts with the counter at zero.
C32_CountIsCumulative ==
    /\ [][(op = "UnsealData" /\ pc \notin {"idle", "done"}) =>
            /\ op' = "UnsealData"
            /\ obs'.calls = obs.calls =>
                  errRetryCount' = errRetryCount
            /\ (obs'.calls = obs.calls + 1 /\ obs'.lastErr) =>
                  /\ errRetryCount' = errRetryCount + 1
                  /\ errRetryCount' = errRetry + 1 =>
                        (pc' = "done" /\ ret' # Nil /\ obs'.path = "retry")
                  /\ errRetryCount' <= errRetry => obs'.path # "retry"
            /\ (obs'.calls = obs.calls + 1 /\ ~obs'.lastErr) =>
                  /\ errRetryCount' = errRetryCount
                  /\ obs'.path # "retry"]_vars
    /\ [][(pc = "idle" /\ op' = "UnsealData" /\ pc' # "idle") =>
            (errRetryCount' = 0 /\ obs'.calls = 0)]_vars
    /\ []((op = "UnsealData" /\ obs.calls = 0) => errRetryCount = 0)

\* the sixth failure ends a run in which calls succeeded before it
C32_Witness ==
    /\ Returned("UnsealData")
    /\ obs.path = "retry"
    /\ errRetryCount = errRetry + 1
    /\ obs.calls = errRetry + 1 + MaxWaits

\* a CancelDeal or CleanupDeal has returned after its DeleteStore failed
DeleteStoreFailed ==
    /\ Returned("CancelDeal") \/ Returned("CleanupDeal")
    /\ obs.delete = "fail"

\* C33: when DeleteStore fails in CancelDeal or CleanupDeal, CloseDataTransfer
\* is not called, the deal is set Errored with every other field, Message
\* included, as it was, and what is returned is what SaveDeal returned: nil
\* with the Errored deal persisted, or the save error with the repository as
\* it was.  The teardown error is neither recorded nor returned.  The
\* CancelDeal that UnsealData runs after a failed PrepareBlockstore does the
\* same.
C33_DeleteFailureIsSilent ==
    /\ DeleteStoreFailed =>
          /\ obs.close = "none"
          /\ deal = [obs.pre EXCEPT !.Status = DealStatusErrored]
          /\ obs.writes # <<>> =>
                (ret = Nil /\ store[deal.ID] = deal /\ obs.writes = <<DealStatusErrored>>)
          /\ obs.writes = <<>> => (ret = "save deal" /\ store[deal.ID] = obs.pre)
    /\ (Returned("UnsealData") /\ obs.path = "prepare" /\ obs.delete = "fail") =>
          /\ obs.close = "none"
          /\ deal.Status = DealStatusErrored
          /\ deal.Message = store[deal.ID].Message
          /\ ret \in {Nil, "save deal"}
          /\ ret = Nil <=> Persisted = DealStatusErrored

\* DeleteStore fails for a deal that has a channel and an earlier message:
\* the channel is left open, the message stays, nil is returned
C33_Witness ==
    /\ Returned("CancelDeal")
    /\ obs.delete = "fail"
    /\ obs.pre.ChannelID # NoChannel
    /\ obs.pre.Message # ""
    /\ obs.pre.Status # DealStatusErrored
    /\ obs.close = "none"
    /\ ret = Nil
    /\ store[deal.ID].Status = DealStatusErrored
    /\ store[deal.ID].Message = obs.pre.Message

\* what acceptDeal answers for the new request when it answers with an error:
\* the payload is unknown, the lookup failed, a term is worse than the ask
\* obtained, or the deal filter rejected the deal or failed
AcceptanceError ==
    IF obs.req.pieceInfo.err = "not found"
    THEN [status |-> DealStatusDealNotFound, err |-> "not found"]
    ELSE IF obs.req.pieceInfo.err # Nil
    THEN [status |-> DealStatusErrored, err |-> obs.req.pieceInfo.err]
    ELSE IF AskObtained = NoAsk THEN [status |-> DealStatusErrored, err |-> Nil]
    ELSE IF WorseThanAsk
    THEN [status |-> DealStatusRejected, err |-> CheckDealParams(AskObtained, ReqProposal)]
    ELSE IF obs.req.policy = "reject"
    THEN [status |-> DealStatusRejected, err |-> "deal rejected"]
    ELSE IF obs.req.policy = "error"
    THEN [status |-> DealStatusErrored, err |-> "deal filter failed"]
    ELSE [status |-> DealStatusAccepted, err |-> Nil]

\* the acceptance of the new request returned an error
AcceptanceFailed ==
    /\ NewRequest
    /\ ReqShapeOk
    /\ AcceptanceError.err # Nil

\* C34: a new request whose acceptance returns an error (DealNotFound,
\* Rejected for its terms or by the deal filter, Errored by the lookup or by
\* the deal filter) leaves the retrieval-deal repository as it was, with no
\* SaveDeal call; the response has that status, the message of the error and
\* no payment owed, and the error itself, not the pause sentinel, is returned.
C34_RefusalSavesNothing ==
    /\ [](AcceptanceFailed =>
            /\ resp.Status = AcceptanceError.status
            /\ resp.Message = AcceptanceError.err
            /\ resp.PaymentOwed = NilAmount
            /\ ret = AcceptanceError.err
            /\ ret \notin {Nil, ErrPause}
            /\ obs.writes = <<>>)
    /\ [][(pc = "idle" /\ AcceptanceFailed') => store' = store]_vars

\* the deal filter fails for a request whose ID has a saved deal: the
\* repository keeps that deal
C34_Witness ==
    /\ AcceptanceFailed
    /\ obs.req.policy = "error"
    /\ resp.Status = DealStatusErrored
    /\ ret = "deal filter failed"
    /\ Saved(ReqProposal.ID)
    /\ store[ReqProposal.ID] # deal

====
